---- MODULE Spec2Model ----
(***************************************************************************)
(* A model of the APNs / e-mail relay of src/index.ts: the security        *)
(* middleware, safeSend, the POST /send-apn handler and the POST           *)
(* /send-email handler, on Node's single-threaded event loop.              *)
(*                                                                         *)
(* One step of the model is one turn of the event loop: the arrival of a   *)
(* request runs the middleware and the handler up to its first pending     *)
(* await; the settling of a pending apnClient.send or sendMail promise     *)
(* runs every continuation that becomes runnable (the catch block of       *)
(* safeSend, a retry's new send, the join of Promise.all, the response).   *)
(***************************************************************************)
EXTENDS Integers, Sequences, FiniteSets, TLC

\* ------------------------------------------------------------------ bounds
\* Longest tokens array of a request body.
MaxTokens == 2
\* Number of request slots of the server.
MaxReqs == 2

Reqs == 1..MaxReqs

\* ------------------------------------------------------- JavaScript values
\* A JavaScript value is a record [t |-> its type, v |-> its text].
Undef == [t |-> "undefined", v |-> ""]
Null == [t |-> "null", v |-> ""]
Str(s) == [t |-> "string", v |-> s]
Num(s) == [t |-> "number", v |-> s]

\* x == null (undefined or null), the test of ?? and ?.
Nullish(x) == x.t \in {"undefined", "null"}

\* !x for the values above: undefined, null, "" and 0 are falsy.
Falsy(x) ==
  \/ Nullish(x)
  \/ x.t = "string" /\ x.v = ""
  \/ x.t = "number" /\ x.v = "0"

\* `${x}`: the text a template literal interpolates.
Interpolate(x) ==
  IF x.t = "undefined" THEN "undefined"
  ELSE IF x.t = "null" THEN "null"
  ELSE x.v

\* String.prototype.includes: needle occurs in s as a contiguous substring.
Includes(s, needle) ==
  \E i \in 1..(Len(s) - Len(needle) + 1) :
    SubSeq(s, i, i + Len(needle) - 1) = needle

\* ------------------------------------------------------------- environment
\* process.env.WORKER_SECRET.
WORKER_SECRET == "s3cret"
\* process.env.APN_BUNDLE_ID.
APN_BUNDLE_ID == "app.coordy"
\* The files of the templates/ directory.
TemplateFiles == {"invite.hbs"}

\* ------------------------------------------------------ security middleware
\* A faulty variant: any header that carries the secret passes.
AuthorizedPrefix(auth) ==
  auth.t = "string" /\ Includes(auth.v, WORKER_SECRET)
\* auth !== `Bearer ${process.env.WORKER_SECRET}` is false.
Authorized(auth) == auth = Str("Bearer " \o WORKER_SECRET)

\* ----------------------------------------------------------------- safeSend
\* The default of safeSend's retries parameter.
DefaultRetries == 1

\* A value apnClient.send rejects with: undefined, null, or an object with
\* the fields code and message.
ErrObject(code, message) == [t |-> "object", code |-> code, message |-> message]
ErrUndefined == [t |-> "undefined", code |-> Undef, message |-> Undef]
ErrNull == [t |-> "null", code |-> Undef, message |-> Undef]

\* A faulty variant: only the error code is tested.
SocketTestCodeOnly(err) ==
  IF Nullish(err) THEN "TypeError"
  ELSE IF err.code = Str("UND_ERR_SOCKET") THEN "yes"
  ELSE "no"
\* err.code === "UND_ERR_SOCKET" || err.message?.includes("socket"):
\* "yes", "no", or "TypeError" when evaluating it throws (a property read on
\* undefined or null; a message that has no includes method).
SocketTest(err) ==
  IF Nullish(err) THEN "TypeError"
  ELSE IF err.code = Str("UND_ERR_SOCKET") THEN "yes"
  ELSE IF Nullish(err.message) THEN "no"
  ELSE IF err.message.t # "string" THEN "TypeError"
  ELSE IF Includes(err.message.v, "socket") THEN "yes"
  ELSE "no"

\* A faulty variant: the retries > 0 test is missing.
CatchBranchNoBudget(retries, err) ==
  IF SocketTest(err) = "TypeError" THEN "throw"
  ELSE IF SocketTest(err) = "yes" THEN "retry"
  ELSE "swallow"
\* The catch block of safeSend: "retry" (return safeSend(notification,
\* retries - 1)), "swallow" (console.error, then return) or "throw" (the
\* condition itself threw, so the promise of safeSend rejects). With
\* retries = 0 the && short-circuits and err is not inspected.
CatchBranch(retries, err) ==
  IF retries > 0
  THEN IF SocketTest(err) = "TypeError" THEN "throw"
       ELSE IF SocketTest(err) = "yes" THEN "retry"
       ELSE "swallow"
  ELSE "swallow"

\* err.message of the TypeError the catch block throws.
TypeErrorMessage(err) ==
  IF err.t = "undefined"
  THEN "Cannot read properties of undefined (reading 'code')"
  ELSE IF err.t = "null"
  THEN "Cannot read properties of null (reading 'code')"
  ELSE "err.message?.includes is not a function"

\* ------------------------------------------------- POST /send-apn: helpers
\* A faulty variant: an empty array passes.
MissingTokensUndefOnly(tokens) == Nullish(tokens)
\* !tokens?.length
MissingTokens(tokens) == Nullish(tokens) \/ Len(tokens.v) = 0

\* a ?? b
Coalesce(a, b) == IF Nullish(a) THEN b ELSE a

\* payload?.title and payload?.body
PayloadTitle(payload) == IF Nullish(payload) THEN Undef ELSE payload.title
PayloadBody(payload) == IF Nullish(payload) THEN Undef ELSE payload.body

\* new Notification(token, {...}) of the silent and of the alert branch.
SilentNotification(token) ==
  [deviceToken |-> token, pushType |-> "background", contentAvailable |-> TRUE,
   alert |-> FALSE, title |-> Undef, body |-> Undef, sound |-> Undef,
   topic |-> APN_BUNDLE_ID]
AlertNotification(token, title, body) ==
  [deviceToken |-> token, pushType |-> "alert", contentAvailable |-> FALSE,
   alert |-> TRUE, title |-> title, body |-> body, sound |-> Str("default"),
   topic |-> APN_BUNDLE_ID]
\* A faulty variant: || in place of ??, so an empty title is replaced.
BuildNotificationOr(token, type, payload) ==
  IF type = Str("silent")
  THEN SilentNotification(token)
  ELSE AlertNotification(token,
         IF Falsy(PayloadTitle(payload)) THEN Str("Coordiy Update")
         ELSE PayloadTitle(payload),
         IF Falsy(PayloadBody(payload)) THEN Str("Event changed")
         ELSE PayloadBody(payload))
\* The Notification the map callback builds for one token.
BuildNotification(token, type, payload) ==
  IF type = Str("silent")
  THEN SilentNotification(token)
  ELSE AlertNotification(token,
         Coalesce(PayloadTitle(payload), Str("Coordiy Update")),
         Coalesce(PayloadBody(payload), Str("Event changed")))

\* tokens.map(async (token) => { ...; await safeSend(notification); }): the
\* callback runs synchronously up to the pending apnClient.send of each
\* token, so every delivery starts with its first attempt in flight.
\*   retries   the retries argument of the running safeSend call
\*   attempts  the apnClient.send calls made so far for this token
\*   state     of the promise the map callback returned
\*   outcomes  how each finished apnClient.send call settled, in order
StartDelivery(token, type, payload) ==
  [notification |-> BuildNotification(token, type, payload),
   retries |-> DefaultRetries, attempts |-> 1, state |-> "pending",
   outcomes |-> << >>]
\* A faulty variant: only the first token is delivered.
FanOutFirstOnly(tokens, type, payload) ==
  [i \in 1..1 |-> StartDelivery(tokens[i], type, payload)]
\* The array of promises tokens.map(...) returns.
FanOut(tokens, type, payload) ==
  [i \in 1..Len(tokens) |-> StartDelivery(tokens[i], type, payload)]

\* ------------------------------------------------ POST /send-email: helpers
\* A faulty variant: only `to` is tested.
MissingParamsToOnly(body) == Falsy(body.to)
\* !to || !template || !subject
MissingParams(body) ==
  Falsy(body.to) \/ Falsy(body.template) \/ Falsy(body.subject)

\* fs.readFileSync(templatePath, "utf8") returns (the file exists).
TemplateReadable(template) == template.v \in TemplateFiles

\* `https://coordy-prod.vercel.app/api/calendar/${eventId}.ics`
CalendarUrl(eventId) ==
  "https://coordy-prod.vercel.app/api/calendar/" \o Interpolate(eventId) \o ".ics"

\* A faulty variant: the `if (eventId)` test is missing.
AttachmentsAlways(body) ==
  << [filename |-> Interpolate(body.eventTitle) \o ".ics",
      path |-> CalendarUrl(body.eventId),
      contentType |-> "text/calendar; charset=UTF-8; method=REQUEST"] >>
\* The attachments array handed to sendMail.
Attachments(body) ==
  IF Falsy(body.eventId) THEN << >>
  ELSE << [filename |-> Interpolate(body.eventTitle) \o ".ics",
           path |-> CalendarUrl(body.eventId),
           contentType |-> "text/calendar; charset=UTF-8; method=REQUEST"] >>

\* The message handed to transporter.sendMail; html stands for the rendered
\* template and keeps the one variable the handler computes, icalLink.
MailMessage(body) ==
  [from |-> body.user, to |-> body.to, subject |-> body.subject,
   html |-> [template |-> body.template.v,
             icalLink |-> IF Falsy(body.eventId) THEN ""
                          ELSE CalendarUrl(body.eventId)],
   attachments |-> Attachments(body)]

\* ---------------------------------------------------------------- responses
Response(status, success, error) ==
  [status |-> status, success |-> success, error |-> error]
Forbidden == Response(403, FALSE, "Forbidden")
MissingTokensResponse == Response(500, FALSE, "Missing tokens")
MissingParamsResponse == Response(400, FALSE, "Missing params")
Success == Response(200, TRUE, "")
ServerError(message) == Response(500, FALSE, message)

\* -------------------------------------------------------------------- inputs
TokensUndef == [t |-> "undefined", v |-> << >>]
TokensArray(n) == [t |-> "array", v |-> [i \in 1..n |-> "tok" \o ToString(i)]]
PayloadUndef == [t |-> "undefined", title |-> Undef, body |-> Undef]
PayloadObject(title, body) == [t |-> "object", title |-> title, body |-> body]

AuthHeaders ==
  {Undef, Str("Bearer " \o WORKER_SECRET), Str(WORKER_SECRET),
   Str("bearer " \o WORKER_SECRET), Str("Bearer " \o WORKER_SECRET \o "x")}
TokenLists == {TokensUndef} \cup {TokensArray(n) : n \in 0..MaxTokens}
Types == {Undef, Str("silent"), Str("alert"), Str("Silent")}
Payloads ==
  {PayloadUndef, PayloadObject(Str("Hi"), Undef),
   PayloadObject(Str(""), Str("Bye"))}

Body(tokens, payload, type, to, template, subject, eventTitle, eventId) ==
  [tokens |-> tokens, payload |-> payload, type |-> type, to |-> to,
   template |-> template, subject |-> subject, user |-> Str("relay@gmail.com"),
   eventTitle |-> eventTitle, eventId |-> eventId]
ApnBodies ==
  {Body(tk, p, ty, Undef, Undef, Undef, Undef, Undef) :
     tk \in TokenLists, p \in Payloads, ty \in Types}
EmailBodies ==
  {Body(TokensUndef, PayloadUndef, Undef, to, tpl, sub, Str("Party"), id) :
     to \in {Undef, Str("ann@example.com")},
     tpl \in {Undef, Str("invite.hbs"), Str("gone.hbs")},
     sub \in {Undef, Str("Invite")},
     id \in {Undef, Str(""), Str("ev1"), Str("ev2")}}
Requests ==
  {[route |-> "/send-apn", auth |-> a, body |-> b] :
     a \in AuthHeaders, b \in ApnBodies}
  \cup {[route |-> "/send-email", auth |-> a, body |-> b] :
     a \in AuthHeaders, b \in EmailBodies}

\* How one apnClient.send call settles: it resolves, or rejects with a value.
Resolved == [t |-> "resolved", code |-> Undef, message |-> Undef]
SendErrors ==
  {ErrObject(Str("UND_ERR_SOCKET"), Str("other side closed")),
   ErrObject(Str("ECONNRESET"), Str("socket hang up")),
   ErrObject(Undef, Str("Socket closed")),
   ErrObject(Undef, Str("BadDeviceToken")),
   ErrObject(Undef, Undef),
   ErrObject(Undef, Num("42")),
   ErrUndefined, ErrNull}
SendOutcomes == {Resolved} \cup SendErrors

\* How one sendMail call settles: "" when it resolves, else the message of
\* the Error it rejects with.
MailOutcomes == {"", "Invalid login", "Connection timeout"}

\* --------------------------------------------------------------------- state
VARIABLES
  request,     \* request[r]: the request in slot r, NoRequest before it arrives
  pc,          \* pc[r]: "idle", "awaitAll", "awaitMail" or "done"
  responses,   \* responses[r]: the responses sent for r, in order
  deliveries,  \* deliveries[r]: the promises handed to Promise.all
  reads,       \* reads[r]: readFileSync calls made for r
  mails,       \* mails[r]: the messages handed to sendMail for r
  mailPending, \* mailPending[r]: r's sendMail promise is pending
  mailResults  \* mailResults[r]: how r's finished sendMail calls settled

vars ==
  <<request, pc, responses, deliveries, reads, mails, mailPending, mailResults>>

NoRequest ==
  [route |-> "", auth |-> Undef,
   body |-> Body(TokensUndef, PayloadUndef, Undef, Undef, Undef, Undef, Undef, Undef)]

Init ==
  /\ request = [r \in Reqs |-> NoRequest]
  /\ pc = [r \in Reqs |-> "idle"]
  /\ responses = [r \in Reqs |-> << >>]
  /\ deliveries = [r \in Reqs |-> << >>]
  /\ reads = [r \in Reqs |-> 0]
  /\ mails = [r \in Reqs |-> << >>]
  /\ mailPending = [r \in Reqs |-> FALSE]
  /\ mailResults = [r \in Reqs |-> << >>]

\* ------------------------------------------------------------------- actions
\* res.status(...).json(...) for r, which ends the handler (every call of it
\* in the source is a return).
Respond(r, response) ==
  /\ responses' = [responses EXCEPT ![r] = Append(@, response)]
  /\ pc' = [pc EXCEPT ![r] = "done"]

\* The POST /send-apn handler up to `await Promise.all(...)`.
SendApn(r, body) ==
  IF MissingTokens(body.tokens)
  THEN /\ Respond(r, MissingTokensResponse)
       /\ UNCHANGED <<deliveries, reads, mails, mailPending, mailResults>>
  ELSE /\ deliveries' =
            [deliveries EXCEPT ![r] = FanOut(body.tokens.v, body.type, body.payload)]
       /\ pc' = [pc EXCEPT ![r] = "awaitAll"]
       /\ UNCHANGED <<responses, reads, mails, mailPending, mailResults>>

\* A faulty variant: the mail is handed to the transport before the template
\* is read.
SendEmailSendFirst(r, body) ==
  IF MissingParams(body)
  THEN /\ Respond(r, MissingParamsResponse)
       /\ UNCHANGED <<deliveries, reads, mails, mailPending, mailResults>>
  ELSE /\ reads' = [reads EXCEPT ![r] = @ + 1]
       /\ mails' = [mails EXCEPT ![r] = Append(@, MailMessage(body))]
       /\ IF TemplateReadable(body.template)
          THEN /\ mailPending' = [mailPending EXCEPT ![r] = TRUE]
               /\ pc' = [pc EXCEPT ![r] = "awaitMail"]
               /\ UNCHANGED <<responses, deliveries, mailResults>>
          ELSE /\ Respond(r, ServerError("ENOENT: no such file or directory"))
               /\ UNCHANGED <<deliveries, mailPending, mailResults>>
\* The POST /send-email handler up to `await transporter.sendMail(...)`.
SendEmail(r, body) ==
  IF MissingParams(body)
  THEN /\ Respond(r, MissingParamsResponse)
       /\ UNCHANGED <<deliveries, reads, mails, mailPending, mailResults>>
  ELSE /\ reads' = [reads EXCEPT ![r] = @ + 1]
       /\ IF TemplateReadable(body.template)
          THEN /\ mails' = [mails EXCEPT ![r] = Append(@, MailMessage(body))]
               /\ mailPending' = [mailPending EXCEPT ![r] = TRUE]
               /\ pc' = [pc EXCEPT ![r] = "awaitMail"]
               /\ UNCHANGED <<responses, deliveries, mailResults>>
          ELSE /\ Respond(r, ServerError("ENOENT: no such file or directory"))
               /\ UNCHANGED <<deliveries, mails, mailPending, mailResults>>

\* Request q arrives in slot r: the security middleware, then the route.
Receive(r, q) ==
  /\ pc[r] = "idle"
  /\ request' = [request EXCEPT ![r] = q]
  /\ IF ~Authorized(q.auth)
     THEN /\ Respond(r, Forbidden)
          /\ UNCHANGED <<deliveries, reads, mails, mailPending, mailResults>>
     ELSE IF q.route = "/send-apn"
          THEN SendApn(r, q.body)
          ELSE SendEmail(r, q.body)

\* One delivery after its pending apnClient.send settled with outcome o: the
\* rest of safeSend and of the map callback.
AfterSend(d, o) ==
  LET branch == IF o = Resolved THEN "resolve" ELSE CatchBranch(d.retries, o)
      seen == Append(d.outcomes, o)
  IN  IF branch = "retry"
      THEN [d EXCEPT !.retries = @ - 1, !.attempts = @ + 1, !.outcomes = seen]
      ELSE IF branch = "throw"
      THEN [d EXCEPT !.state = "rejected", !.outcomes = seen]
      ELSE [d EXCEPT !.state = "fulfilled", !.outcomes = seen]

\* A faulty variant: a rejection is dropped, the join waits for fulfilment.
PromiseAllFulfilledOnly(ds) ==
  IF \A j \in DOMAIN ds : ds[j].state = "fulfilled" THEN "fulfilled"
  ELSE "pending"
\* Promise.all over the deliveries: rejected as soon as one is, fulfilled
\* once all are.
PromiseAll(ds) ==
  IF \E j \in DOMAIN ds : ds[j].state = "rejected" THEN "rejected"
  ELSE IF \A j \in DOMAIN ds : ds[j].state = "fulfilled" THEN "fulfilled"
  ELSE "pending"

\* A faulty variant: the handler answers whenever a delivery settles the
\* join, although it has already answered.
SendSettlesRespondAgain(r, i, o) ==
  /\ i \in DOMAIN deliveries[r]
  /\ deliveries[r][i].state = "pending"
  /\ LET ds == [deliveries[r] EXCEPT ![i] = AfterSend(@, o)]
     IN  /\ deliveries' = [deliveries EXCEPT ![r] = ds]
         /\ IF ds[i].state = "rejected"
            THEN Respond(r, ServerError(TypeErrorMessage(o)))
            ELSE IF PromiseAll(ds) = "fulfilled"
            THEN Respond(r, Success)
            ELSE UNCHANGED <<pc, responses>>
  /\ UNCHANGED <<request, reads, mails, mailPending, mailResults>>
\* A faulty variant: a rejected delivery fails every request that is waiting,
\* as a process-wide failure flag would.
SendSettlesEscalate(r, i, o) ==
  /\ i \in DOMAIN deliveries[r]
  /\ deliveries[r][i].state = "pending"
  /\ LET ds == [deliveries[r] EXCEPT ![i] = AfterSend(@, o)]
     IN  /\ deliveries' = [deliveries EXCEPT ![r] = ds]
         /\ IF pc[r] = "awaitAll" /\ PromiseAll(ds) = "rejected"
            THEN /\ responses' =
                      [s \in Reqs |->
                         IF pc[s] = "awaitAll"
                         THEN Append(responses[s], ServerError(TypeErrorMessage(o)))
                         ELSE responses[s]]
                 /\ pc' = [s \in Reqs |-> IF pc[s] = "awaitAll" THEN "done" ELSE pc[s]]
            ELSE IF pc[r] = "awaitAll" /\ PromiseAll(ds) = "fulfilled"
            THEN Respond(r, Success)
            ELSE UNCHANGED <<pc, responses>>
  /\ UNCHANGED <<request, reads, mails, mailPending, mailResults>>
\* The pending apnClient.send of delivery i of request r settles with o.
SendSettles(r, i, o) ==
  /\ i \in DOMAIN deliveries[r]
  /\ deliveries[r][i].state = "pending"
  /\ LET ds == [deliveries[r] EXCEPT ![i] = AfterSend(@, o)]
     IN  /\ deliveries' = [deliveries EXCEPT ![r] = ds]
         /\ IF pc[r] = "awaitAll" /\ PromiseAll(ds) = "rejected"
            THEN Respond(r, ServerError(TypeErrorMessage(o)))
            ELSE IF pc[r] = "awaitAll" /\ PromiseAll(ds) = "fulfilled"
            THEN Respond(r, Success)
            ELSE UNCHANGED <<pc, responses>>
  /\ UNCHANGED <<request, reads, mails, mailPending, mailResults>>

\* A faulty variant: a failed send is submitted once more, as on the push path.
MailSettlesRetry(r, o) ==
  /\ mailPending[r]
  /\ mailResults' = [mailResults EXCEPT ![r] = Append(@, o)]
  /\ IF o = ""
     THEN /\ Respond(r, Success)
          /\ mailPending' = [mailPending EXCEPT ![r] = FALSE]
          /\ UNCHANGED mails
     ELSE IF Len(mails[r]) < 2
     THEN /\ mails' = [mails EXCEPT ![r] = Append(@, @[1])]
          /\ UNCHANGED <<pc, responses, mailPending>>
     ELSE /\ Respond(r, ServerError(o))
          /\ mailPending' = [mailPending EXCEPT ![r] = FALSE]
          /\ UNCHANGED mails
  /\ UNCHANGED <<request, deliveries, reads>>
\* The pending sendMail of request r settles with o: the rest of the
\* POST /send-email handler.
MailSettles(r, o) ==
  /\ mailPending[r]
  /\ mailPending' = [mailPending EXCEPT ![r] = FALSE]
  /\ mailResults' = [mailResults EXCEPT ![r] = Append(@, o)]
  /\ IF o = "" THEN Respond(r, Success) ELSE Respond(r, ServerError(o))
  /\ UNCHANGED <<request, deliveries, reads, mails>>

\* ------------------------------------------------------------ specifications
\* Spec follows one request through the server, its headers and body drawn
\* from all of Requests.
Solo == CHOOSE r \in Reqs : \A s \in Reqs : r <= s

Next ==
  \/ \E q \in Requests : Receive(Solo, q)
  \/ \E r \in Reqs : \E i \in 1..MaxTokens : \E o \in SendOutcomes :
       SendSettles(r, i, o)
  \/ \E r \in Reqs : \E o \in MailOutcomes : MailSettles(r, o)

Spec == Init /\ [][Next]_vars

\* ConcSpec has every slot receive a request, so that requests are in flight
\* together over the shared apnClient; their bodies are drawn from a narrow
\* set of authorized /send-apn requests.
ConcRequests ==
  {[route |-> "/send-apn", auth |-> Str("Bearer " \o WORKER_SECRET),
    body |-> Body(tk, PayloadUndef, Str("silent"), Undef, Undef, Undef, Undef, Undef)] :
     tk \in {TokensUndef, [t |-> "array", v |-> <<"tok1">>]}}

NextConc ==
  \/ \E r \in Reqs : \E q \in ConcRequests : Receive(r, q)
  \/ \E r \in Reqs : \E i \in 1..MaxTokens : \E o \in SendOutcomes :
       SendSettles(r, i, o)

ConcSpec == Init /\ [][NextConc]_vars

\* LiveSpec follows one authorized /send-apn request, with any tokens field,
\* under the assumption that every pending apnClient.send settles at last
\* (weak fairness of each delivery's settling).
LiveRequests ==
  {[route |-> "/send-apn", auth |-> Str("Bearer " \o WORKER_SECRET),
    body |-> Body(tk, PayloadUndef, Str("alert"), Undef, Undef, Undef, Undef, Undef)] :
     tk \in TokenLists}

NextLive ==
  \/ \E q \in LiveRequests : Receive(Solo, q)
  \/ \E r \in Reqs : \E i \in 1..MaxTokens : \E o \in SendOutcomes :
       SendSettles(r, i, o)

EverySendSettles ==
  \A r \in Reqs : \A i \in 1..MaxTokens :
    WF_vars(\E o \in SendOutcomes : SendSettles(r, i, o))

LiveSpec == Init /\ [][NextLive]_vars /\ EverySendSettles

\* ---------------------------------------------------------------- properties
\* The words of the properties below, stated on the recorded inputs.
Arrived(r) == pc[r] # "idle"
BearerOk(r) ==
  request[r].auth.t = "string" /\ request[r].auth.v = "Bearer " \o WORKER_SECRET
ApnRequest(r) == Arrived(r) /\ BearerOk(r) /\ request[r].route = "/send-apn"
EmailRequest(r) == Arrived(r) /\ BearerOk(r) /\ request[r].route = "/send-email"
TokensGiven(r) ==
  request[r].body.tokens.t = "array" /\ Len(request[r].body.tokens.v) > 0
Absent(x) == x.t = "undefined"
Supplied(x) == x.t # "undefined"
\* Transient-socket-classified: the code is "UND_ERR_SOCKET" or the message
\* contains "socket".
TransientClassified(e) ==
  /\ e.t = "object"
  /\ \/ e.code.t = "string" /\ e.code.v = "UND_ERR_SOCKET"
     \/ e.message.t = "string" /\ Includes(e.message.v, "socket")

\* C1: a request whose Authorization header is absent or differs from
\* "Bearer " + the secret gets exactly the 403 Forbidden response, and no
\* delivery, template read or mail send is made for it, whatever its body.
C1_ForbiddenNoSend ==
  \A r \in Reqs :
    (Arrived(r) /\ ~BearerOk(r)) =>
      /\ responses[r] = <<Forbidden>>
      /\ deliveries[r] = << >>
      /\ reads[r] = 0
      /\ mails[r] = << >>
      /\ ~mailPending[r]

C1_Witness ==
  \E r \in Reqs :
    /\ Arrived(r)
    /\ request[r].auth = Str("bearer " \o WORKER_SECRET)
    /\ request[r].route = "/send-apn"
    /\ TokensGiven(r)
    /\ responses[r] = <<Forbidden>>

\* C2: with the default budget, once the first attempt of a delivery failed
\* with a transient-classified error there are exactly 2 attempts, never a
\* third, and when the second attempt has settled (in any way) safeSend has
\* returned without error.
C2_TransientThenTwoAttempts ==
  \A r \in Reqs : \A i \in DOMAIN deliveries[r] :
    LET d == deliveries[r][i] IN
      (Len(d.outcomes) >= 1 /\ TransientClassified(d.outcomes[1])) =>
        /\ d.attempts = 2
        /\ Len(d.outcomes) <= 2
        /\ d.state # "rejected"
        /\ (Len(d.outcomes) = 2 <=> d.state = "fulfilled")

C2_Witness ==
  \E r \in Reqs : \E i \in DOMAIN deliveries[r] :
    LET d == deliveries[r][i] IN
      /\ Len(d.outcomes) = 2
      /\ TransientClassified(d.outcomes[1])
      /\ d.outcomes[2] = ErrUndefined
      /\ d.attempts = 2
      /\ d.state = "fulfilled"

\* C3: after the k-th attempt of a delivery settled, a further attempt is made
\* if and only if the budget left then (DefaultRetries - (k - 1)) is positive
\* and that attempt failed with a transient-classified error; so a first
\* attempt that succeeds or fails otherwise is the only one.
C3_RetryIffTransient ==
  \A r \in Reqs : \A i \in DOMAIN deliveries[r] :
    LET d == deliveries[r][i] IN
      /\ \A k \in 1..Len(d.outcomes) :
           (d.attempts > k) <=>
             (DefaultRetries - (k - 1) > 0 /\ TransientClassified(d.outcomes[k]))
      /\ (Len(d.outcomes) >= 1 /\ ~TransientClassified(d.outcomes[1])) =>
           d.attempts = 1

C3_Witness ==
  \E r \in Reqs : \E i \in DOMAIN deliveries[r] :
    LET d == deliveries[r][i] IN
      /\ d.outcomes = <<ErrObject(Undef, Str("Socket closed"))>>
      /\ d.attempts = 1
      /\ d.state = "fulfilled"

\* C4: the promise of safeSend never rejects, whatever apnClient.send rejects
\* with.
C4_SafeSendNeverRejects ==
  \A r \in Reqs : \A i \in DOMAIN deliveries[r] :
    deliveries[r][i].state # "rejected"

\* C5: an authorized /send-apn request with N > 0 tokens has exactly N
\* deliveries, the i-th for the i-th token and with at least one attempt,
\* whatever has happened to the other deliveries.
C5_OneDeliveryPerToken ==
  \A r \in Reqs :
    (ApnRequest(r) /\ TokensGiven(r)) =>
      /\ Len(deliveries[r]) = Len(request[r].body.tokens.v)
      /\ \A i \in DOMAIN deliveries[r] :
           /\ deliveries[r][i].attempts >= 1
           /\ deliveries[r][i].notification.deviceToken = request[r].body.tokens.v[i]

C5_Witness ==
  \E r \in Reqs :
    /\ ApnRequest(r)
    /\ Len(request[r].body.tokens.v) >= 2
    /\ deliveries[r][1].state = "rejected"
    /\ deliveries[r][2].attempts = 2
    /\ Len(deliveries[r][2].outcomes) = 2

\* C6: an authorized /send-apn request with tokens is answered 200 with
\* success:true whatever the deliveries' outcomes; never 500.
C6_AlwaysSuccess ==
  \A r \in Reqs :
    (ApnRequest(r) /\ TokensGiven(r) /\ responses[r] # << >>) =>
      responses[r] = <<Success>>

\* C7: once the response of a /send-apn request is sent, none of its
\* deliveries has an attempt pending.
C7_ResponseAfterAllSettled ==
  \A r \in Reqs :
    (ApnRequest(r) /\ responses[r] # << >>) =>
      \A i \in DOMAIN deliveries[r] : deliveries[r][i].state # "pending"

\* C8: an authorized /send-apn request whose tokens are absent or an empty
\* array is answered 500 "Missing tokens"; no notification is built and no
\* attempt made.
C8_MissingTokens ==
  \A r \in Reqs :
    (ApnRequest(r) /\ ~TokensGiven(r)) =>
      /\ responses[r] = <<Response(500, FALSE, "Missing tokens")>>
      /\ deliveries[r] = << >>

C8_Witness ==
  \E r \in Reqs :
    /\ ApnRequest(r)
    /\ request[r].body.tokens.t = "array"
    /\ request[r].body.tokens.v = << >>
    /\ responses[r] = <<Response(500, FALSE, "Missing tokens")>>

\* C9: each token has exactly one notification, whose variant depends on type
\* alone: for "silent" the background marker and no alert text; for any other
\* type the alert, its title the supplied payload title or else "Coordiy
\* Update", its body the supplied payload body or else "Event changed".
C9_NotificationVariant ==
  \A r \in Reqs :
    /\ ApnRequest(r) /\ TokensGiven(r) =>
         Len(deliveries[r]) = Len(request[r].body.tokens.v)
    /\ \A i \in DOMAIN deliveries[r] :
         LET n == deliveries[r][i].notification
             b == request[r].body
             given == b.payload.t = "object"
         IN  /\ n.deviceToken = b.tokens.v[i]
             /\ IF b.type.t = "string" /\ b.type.v = "silent"
                THEN /\ n.contentAvailable /\ n.pushType = "background"
                     /\ ~n.alert /\ Absent(n.title) /\ Absent(n.body)
                ELSE /\ n.alert /\ ~n.contentAvailable /\ n.pushType = "alert"
                     /\ n.title = IF given /\ Supplied(b.payload.title)
                                  THEN b.payload.title ELSE Str("Coordiy Update")
                     /\ n.body = IF given /\ Supplied(b.payload.body)
                                 THEN b.payload.body ELSE Str("Event changed")

C9_Witness ==
  \E r \in Reqs : \E i \in DOMAIN deliveries[r] :
    /\ request[r].body.type = Str("Silent")
    /\ request[r].body.payload = PayloadObject(Str(""), Str("Bye"))
    /\ deliveries[r][i].notification.alert
    /\ deliveries[r][i].notification.title = Str("")
    /\ deliveries[r][i].notification.body = Str("Bye")

\* C10: an authorized /send-email request that lacks to, template or subject
\* is answered 400 "Missing params", with no template read and no mail send.
C10_MissingParams ==
  \A r \in Reqs :
    (EmailRequest(r) /\ \/ Absent(request[r].body.to)
                        \/ Absent(request[r].body.template)
                        \/ Absent(request[r].body.subject)) =>
      /\ responses[r] = <<Response(400, FALSE, "Missing params")>>
      /\ reads[r] = 0
      /\ mails[r] = << >>
      /\ ~mailPending[r]

C10_Witness ==
  \E r \in Reqs :
    /\ EmailRequest(r)
    /\ request[r].body.to = Str("ann@example.com")
    /\ request[r].body.template = Str("invite.hbs")
    /\ Absent(request[r].body.subject)
    /\ responses[r] = <<Response(400, FALSE, "Missing params")>>

\* A valid /send-email request: to, template and subject are non-empty strings.
EmailValid(r) ==
  /\ EmailRequest(r)
  /\ \A x \in {request[r].body.to, request[r].body.template, request[r].body.subject} :
       x.t = "string" /\ x.v # ""
\* Reading the named template succeeds.
TemplateExists(r) == request[r].body.template.v \in TemplateFiles
\* The response the claim gives a valid /send-email request: none while the
\* send is pending, 200 success:true once it succeeded, 500 with the error
\* message once the template read or the send failed.
EmailResponseAsStated(r) ==
  /\ ~TemplateExists(r) =>
       /\ Len(responses[r]) = 1
       /\ responses[r][1].status = 500
       /\ responses[r][1].error # ""
  /\ (TemplateExists(r) /\ mailResults[r] = << >>) =>
       responses[r] = << >> /\ mailPending[r]
  /\ (TemplateExists(r) /\ mailResults[r] # << >>) =>
       /\ ~mailPending[r]
       /\ Len(mailResults[r]) = 1
       /\ responses[r] =
            IF mailResults[r][1] = ""
            THEN <<Response(200, TRUE, "")>>
            ELSE <<Response(500, FALSE, mailResults[r][1])>>

\* C11 as stated: every valid authorized /send-email request has its mail
\* submitted exactly once, and is answered as stated.
C11_SubmittedExactlyOnce ==
  \A r \in Reqs :
    EmailValid(r) => (Len(mails[r]) = 1 /\ EmailResponseAsStated(r))

\* C11 as amended: the mail of a valid authorized /send-email request is
\* submitted at most once and never again after a failure: exactly once when
\* the template read succeeds, not at all when it fails; the response is 500
\* with the error message when the read or the send fails, 200 success:true
\* when the send succeeds.
C11_SubmittedAtMostOnce ==
  \A r \in Reqs :
    EmailValid(r) =>
      /\ Len(mails[r]) <= 1
      /\ Len(mails[r]) = 1 <=> TemplateExists(r)
      /\ Len(mailResults[r]) <= Len(mails[r])
      /\ EmailResponseAsStated(r)

C11_Witness ==
  \E r \in Reqs :
    /\ EmailValid(r)
    /\ Len(mails[r]) = 1
    /\ mailResults[r] = <<"Invalid login">>
    /\ responses[r] = <<Response(500, FALSE, "Invalid login")>>

\* The calendar reference of event id: one attachment, named by its URL.
IsCalendarReference(atts, id) ==
  /\ Len(atts) = 1
  /\ atts[1].path = "https://coordy-prod.vercel.app/api/calendar/" \o id \o ".ics"

\* C12 as stated: a mail whose request supplies an eventId carries exactly
\* one attachment, the calendar reference of that id; a mail whose request
\* omits eventId carries none.
C12_AttachmentIffSupplied ==
  \A r \in Reqs : \A k \in DOMAIN mails[r] :
    LET id == request[r].body.eventId IN
      IF Supplied(id)
      THEN IsCalendarReference(mails[r][k].attachments, id.v)
      ELSE mails[r][k].attachments = << >>

\* C12 as amended: a mail whose request supplies a non-empty (truthy) eventId
\* carries exactly one attachment, the calendar reference of that id; a mail
\* whose request omits eventId, or supplies an empty one, carries none.
C12_AttachmentIffTruthy ==
  \A r \in Reqs : \A k \in DOMAIN mails[r] :
    LET id == request[r].body.eventId IN
      IF id.t = "string" /\ id.v # ""
      THEN IsCalendarReference(mails[r][k].attachments, id.v)
      ELSE mails[r][k].attachments = << >>

C12_Witness ==
  \E r \in Reqs : \E k \in DOMAIN mails[r] :
    /\ request[r].body.eventId = Str("ev2")
    /\ Len(mails[r][k].attachments) = 1
    /\ mails[r][k].attachments[1].path =
         "https://coordy-prod.vercel.app/api/calendar/ev2.ics"

\* What request s can be told from its own deliveries alone: one delivery per
\* token, each with the whole budget (attempts made plus retries left is
\* DefaultRetries + 1), and a response that is 200 exactly when every one of
\* its own deliveries was fulfilled.
OwnOutcomeOnly(s) ==
  (ApnRequest(s) /\ TokensGiven(s)) =>
    /\ Len(deliveries[s]) = Len(request[s].body.tokens.v)
    /\ \A i \in DOMAIN deliveries[s] :
         /\ deliveries[s][i].retries >= 0
         /\ deliveries[s][i].attempts + deliveries[s][i].retries = DefaultRetries + 1
    /\ responses[s] # << >> =>
         /\ Len(responses[s]) = 1
         /\ responses[s][1].status = 200 <=>
              \A i \in DOMAIN deliveries[s] : deliveries[s][i].state = "fulfilled"
         /\ responses[s][1].status = 500 <=>
              \E i \in DOMAIN deliveries[s] : deliveries[s][i].state = "rejected"

\* C13: with requests in flight together, a step in which a delivery of one
\* request settles (fails, retries, is swallowed) changes nothing of any other
\* request: not its response, its deliveries, their attempts or budgets; and
\* each request's response and budgets follow from its own deliveries alone.
C13_FailureIsLocal ==
  [][\A r \in Reqs :
       /\ OwnOutcomeOnly(r)'
       /\ \A s \in Reqs \ {r} :
            (deliveries'[r] # deliveries[r]) =>
              /\ responses'[s] = responses[s]
              /\ deliveries'[s] = deliveries[s]
              /\ pc'[s] = pc[s]
              /\ request'[s] = request[s]]_vars

C13_Witness ==
  \E r \in Reqs : \E s \in Reqs \ {r} :
    /\ ApnRequest(r) /\ ApnRequest(s)
    /\ TokensGiven(r) /\ TokensGiven(s)
    /\ deliveries[r][1].state = "rejected"
    /\ responses[r] # << >> /\ responses[r][1].status = 500
    /\ deliveries[s][1].state = "pending"
    /\ deliveries[s][1].attempts = 2
    /\ responses[s] = << >>

\* C14: no request is ever answered twice: the 403 of the middleware, the 400
\* of /send-email, the 200 and the 500 exclude each other, also when a
\* delivery settles after the handler answered 500.
C14_AtMostOneResponse ==
  \A r \in Reqs :
    /\ Len(responses[r]) <= 1
    /\ \A k \in DOMAIN responses[r] : responses[r][k].status \in {200, 400, 403, 500}
    /\ (responses[r] # << >>) => pc[r] = "done"

C14_Witness ==
  \E r \in Reqs :
    /\ ApnRequest(r)
    /\ Len(deliveries[r]) >= 2
    /\ \A i \in DOMAIN deliveries[r] : deliveries[r][i].state = "rejected"
    /\ Len(responses[r]) = 1
    /\ responses[r][1].status = 500

\* A safeSend call with retries = k has k + 1 attempts at most before it: the
\* attempts made and the retries left always add up to DefaultRetries + 1.
WithinBudget ==
  \A r \in Reqs : \A i \in DOMAIN deliveries[r] :
    /\ deliveries[r][i].retries >= 0
    /\ deliveries[r][i].attempts + deliveries[r][i].retries = DefaultRetries + 1
    /\ deliveries[r][i].attempts <= DefaultRetries + 1
AllSettled(r) ==
  \A i \in DOMAIN deliveries[r] : deliveries[r][i].state # "pending"

\* C15: if every send attempt settles at last, each safeSend stays within its
\* budget and ends, and every authorized /send-apn request is answered at
\* last, with every one of its deliveries ended, whatever the outcomes.
C15_EverySendApnAnswered ==
  /\ []WithinBudget
  /\ \A r \in Reqs :
       ApnRequest(r) ~> (responses[r] # << >> /\ AllSettled(r))

C15_Witness ==
  \E r \in Reqs :
    /\ ApnRequest(r)
    /\ Len(deliveries[r]) >= 2
    /\ \A i \in DOMAIN deliveries[r] :
         /\ deliveries[r][i].attempts = DefaultRetries + 1
         /\ Len(deliveries[r][i].outcomes) = DefaultRetries + 1
         /\ TransientClassified(deliveries[r][i].outcomes[DefaultRetries + 1])
    /\ responses[r] = <<Success>>

\* C16: a mail is handed to the transport only after the template was read;
\* when reading the named template fails the request is answered 500 and no
\* mail send is attempted for it.
C16_TemplateReadFirst ==
  \A r \in Reqs :
    /\ mails[r] # << >> => (reads[r] >= 1 /\ TemplateExists(r))
    /\ (EmailValid(r) /\ ~TemplateExists(r)) =>
         /\ reads[r] = 1
         /\ Len(responses[r]) = 1
         /\ responses[r][1].status = 500
         /\ mails[r] = << >>
         /\ ~mailPending[r]
         /\ mailResults[r] = << >>

C16_Witness ==
  \E r \in Reqs :
    /\ EmailValid(r)
    /\ request[r].body.template = Str("gone.hbs")
    /\ reads[r] = 1
    /\ mails[r] = << >>
    /\ responses[r] = <<Response(500, FALSE, "ENOENT: no such file or directory")>>
====
